---------------------------- MODULE Spec2Model ----------------------------
(***************************************************************************)
(* Bangalore Pulse scraper (master_scraper.py): keyword classification of  *)
(* scraped text, normalisation of feed entries and forum submissions into  *)
(* events, and the deduplicating upsert of events into the MongoDB         *)
(* collection "events".                                                    *)
(*                                                                         *)
(* Text is a sequence of one-character strings, so that str.lower(),       *)
(* str.title() and the substring test `in` are computed character by       *)
(* character.  Links are TLA+ strings.  A Python list built from a set     *)
(* (list(set)) has no specified order: it is any enumeration of the set.   *)
(***************************************************************************)
EXTENDS Naturals, Sequences, FiniteSets, TLC

(* ------------------------------ bounds --------------------------------- *)
\* tokens concatenated into one classified text
MaxTokens == 3
\* calls of analyze_content on the same text
MaxAnalyses == 2
\* processes that call store_events_in_db concurrently
NumCallers == 2
\* events in one batch handed to store_events_in_db by a caller
MaxBatch == 1
\* events in the batch stored twice in sequence
MaxTwiceBatch == 3
\* storage failures injected into one process
MaxStorageFailures == 1
\* RSS feeds configured (a prefix of the four of RSS_FEEDS)
NumFeeds == 2
\* entries one feed serves
MaxEntries == 2
\* submissions the subreddit listing serves
MaxPosts == 2

(* --------------------------- configuration ----------------------------- *)
KEYWORD_CATEGORIES ==
    [traffic |-> <<
        <<"t","r","a","f","f","i","c">>,
        <<"j","a","m">>,
        <<"c","o","n","g","e","s","t","i","o","n">>,
        <<"r","o","a","d">>,
        <<"f","l","y","o","v","e","r">>,
        <<"a","c","c","i","d","e","n","t">>,
        <<"d","i","v","e","r","s","i","o","n">>,
        <<"s","l","o","w"," ","m","o","v","i","n","g">>,
        <<"b","l","o","c","k","a","d","e">>
     >>,
     civic_issue |-> <<
        <<"w","a","t","e","r"," ","l","o","g","g","i","n","g">>,
        <<"w","a","t","e","r","-","l","o","g","g","e","d">>,
        <<"p","o","t","h","o","l","e">>,
        <<"g","a","r","b","a","g","e">>,
        <<"w","a","s","t","e">>,
        <<"f","a","l","l","e","n"," ","t","r","e","e">>,
        <<"t","r","e","e"," ","f","a","l","l">>,
        <<"s","e","w","a","g","e">>,
        <<"d","r","a","i","n","a","g","e">>,
        <<"w","a","t","e","r"," ","s","u","p","p","l","y">>
     >>,
     power_cut |-> <<
        <<"p","o","w","e","r"," ","c","u","t">>,
        <<"o","u","t","a","g","e">>,
        <<"n","o"," ","e","l","e","c","t","r","i","c","i","t","y">>,
        <<"b","e","s","c","o","m">>,
        <<"p","o","w","e","r"," ","f","a","i","l","u","r","e">>
     >>,
     cultural_event |-> <<
        <<"e","x","h","i","b","i","t","i","o","n">>,
        <<"c","o","n","c","e","r","t">>,
        <<"f","e","s","t","i","v","a","l">>,
        <<"m","a","r","k","e","t">>,
        <<"s","a","n","t","e">>,
        <<"p","l","a","y">>,
        <<"p","e","r","f","o","r","m","a","n","c","e">>,
        <<"f","l","a","s","h"," ","m","o","b">>,
        <<"c","a","r","n","i","v","a","l">>,
        <<"m","e","l","a">>
     >>,
     crime |-> <<
        <<"t","h","e","f","t">>,
        <<"r","o","b","b","e","r","y">>,
        <<"m","u","r","d","e","r">>,
        <<"a","s","s","a","u","l","t">>,
        <<"a","r","r","e","s","t","e","d">>,
        <<"p","o","l","i","c","e">>
     >> ]

BANGALORE_LOCATIONS ==
    << <<"k","o","r","a","m","a","n","g","a","l","a">>,
       <<"h","s","r"," ","l","a","y","o","u","t">>,
       <<"i","n","d","i","r","a","n","a","g","a","r">>,
       <<"m","a","r","a","t","h","a","h","a","l","l","i">>,
       <<"w","h","i","t","e","f","i","e","l","d">>,
       <<"b","t","m"," ","l","a","y","o","u","t">>,
       <<"j","a","y","a","n","a","g","a","r">>,
       <<"j","p"," ","n","a","g","a","r">>,
       <<"b","e","l","l","a","n","d","u","r">>,
       <<"e","l","e","c","t","r","o","n","i","c"," ","c","i","t","y">>,
       <<"m","a","j","e","s","t","i","c">>,
       <<"m","g"," ","r","o","a","d">>,
       <<"h","e","b","b","a","l">>,
       <<"s","a","r","j","a","p","u","r">>,
       <<"o","l","d"," ","a","i","r","p","o","r","t"," ","r","o","a","d">>,
       <<"s","i","l","k"," ","b","o","a","r","d">>,
       <<"t","i","n"," ","f","a","c","t","o","r","y">>,
       <<"y","e","l","a","h","a","n","k","a">>,
       <<"m","a","n","y","a","t","a"," ","t","e","c","h"," ","p","a","r","k">> >>

(* ------------------------- Python string helpers ----------------------- *)
Range(s) == { s[i] : i \in DOMAIN s }

ascii_uppercase ==
    << "A","B","C","D","E","F","G","H","I","J","K","L","M",
       "N","O","P","Q","R","S","T","U","V","W","X","Y","Z" >>

ascii_lowercase ==
    << "a","b","c","d","e","f","g","h","i","j","k","l","m",
       "n","o","p","q","r","s","t","u","v","w","x","y","z" >>

\* None where a text (character sequence) is expected
NoneText == << "None" >>

\* None where a str, a client or a collection is expected
None == "None"

\* the lower-case form of each upper-case letter, and the reverse
to_lower ==
    [ c \in Range(ascii_uppercase) |->
        ascii_lowercase[CHOOSE i \in 1..26 : ascii_uppercase[i] = c] ]

to_upper ==
    [ c \in Range(ascii_lowercase) |->
        ascii_uppercase[CHOOSE i \in 1..26 : ascii_lowercase[i] = c] ]

is_upper(c) == c \in DOMAIN to_lower

is_lower(c) == c \in DOMAIN to_upper

lower_char(c) == IF is_upper(c) THEN to_lower[c] ELSE c

upper_char(c) == IF is_lower(c) THEN to_upper[c] ELSE c

\* str.lower()
lower(s) == [ i \in 1..Len(s) |-> lower_char(s[i]) ]

\* str.title(): a cased character is upper-cased when it follows an uncased
\* one (or starts the string) and lower-cased otherwise
title(s) ==
    [ i \in 1..Len(s) |->
        IF i = 1 \/ ~(is_upper(s[i-1]) \/ is_lower(s[i-1]))
        THEN upper_char(s[i])
        ELSE lower_char(s[i]) ]

\* needle in hay
contains(needle, hay) ==
    \E i \in 0..Len(hay) :
        /\ i + Len(needle) <= Len(hay)
        /\ SubSeq(hay, i + 1, i + Len(needle)) = needle

\* bool(text): None and the empty string are falsy
truthy_text(text) == text # NoneText /\ text # << >>

\* list(a_set): every enumeration of the set without repetition
list(S) ==
    { s \in [1..Cardinality(S) -> S] : \A i, j \in 1..Cardinality(S) : s[i] = s[j] => i = j }

(* ------------------------------ classifier ----------------------------- *)
\* content_lower = content_text.lower()
content_not_lowered(content_text) == content_text

content_lower_of(content_text) == lower(content_text)

categories_found(content_lower) ==
    { category \in DOMAIN KEYWORD_CATEGORIES :
        \E k \in DOMAIN KEYWORD_CATEGORIES[category] :
            contains(KEYWORD_CATEGORIES[category][k], content_lower) }

locations_found(content_lower) ==
    { title(BANGALORE_LOCATIONS[i]) :
        i \in { j \in DOMAIN BANGALORE_LOCATIONS :
                  contains(BANGALORE_LOCATIONS[j], content_lower) } }

\* list(categories_found) if categories_found else ['general']
categories_as_found(found) == list(found)

categories_or_general(found) ==
    IF found # {} THEN list(found) ELSE { << "general" >> }

\* analyze_content(content_text): the set of values the call may return
analyze_content(content_text) ==
    IF ~truthy_text(content_text)
    THEN { [categories |-> << "general" >>, locations |-> << >>] }
    ELSE LET content_lower == content_lower_of(content_text)
         IN  { [categories |-> c, locations |-> l] :
                 c \in categories_or_general(categories_found(content_lower)),
                 l \in list(locations_found(content_lower)) }

(* -------------------------------- state -------------------------------- *)
VARIABLES
    \* classifier calls: the argument, and the values returned so far
    content_text, analysis_results,
    \* the MongoDB collection: its documents, and whether it has the unique
    \* index on link_original
    rows, unique_index,
    \* store_events_in_db, per process: arguments, loop index, the result of
    \* the query phase of update_one, the counter, the outcome of each
    \* update_one of the call, the position in the call, calls made so far
    collection, events, idx, found, events_added, results, store_pc, call,
    \* storage failures injected so far, per process
    failures,
    \* console output, per process
    stdout,
    \* position of each process
    pc,
    \* __main__
    db_collection, reddit_client, rss_events, rss_added, reddit_posts, reddit_added,
    \* fetch_rss_data / fetch_reddit_data: loop index over RSS_FEEDS, outcome
    \* of each source's fetch in this run, the last fetched raw records,
    \* the events accumulated
    source_k, fetch_status, feed, all_events,
    \* the two calls in sequence on one batch: the batch, the collection
    \* before the first call, the two returned counts
    batch, rows_before, first_added, second_added

classifyVars == << content_text, analysis_results >>

dbVars == << rows, unique_index >>

frameVars == << collection, events, idx, found, events_added, results, store_pc, call, failures >>

mainVars == << db_collection, reddit_client, rss_events, rss_added, reddit_posts, reddit_added >>

fetchVars == << source_k, fetch_status, feed, all_events >>

twiceVars == << batch, rows_before, first_added, second_added >>

vars == << classifyVars, dbVars, frameVars, stdout, pc, mainVars, fetchVars, twiceVars >>

Procs == 1..NumCallers

\* the process that runs __main__, and the one that runs the two calls in sequence
MainProc == 1

(* ------------------------ values of idle components -------------------- *)
ClassifierIdle == content_text = NoneText /\ analysis_results = << >>

FramesIdle ==
    /\ collection = [p \in Procs |-> None]
    /\ events = [p \in Procs |-> << >>]
    /\ idx = [p \in Procs |-> 1]
    /\ found = [p \in Procs |-> FALSE]
    /\ events_added = [p \in Procs |-> 0]
    /\ results = [p \in Procs |-> << >>]
    /\ store_pc = [p \in Procs |-> "idle"]
    /\ call = [p \in Procs |-> 0]
    /\ failures = [p \in Procs |-> 0]
    /\ stdout = [p \in Procs |-> << >>]

MainIdle ==
    /\ db_collection = None
    /\ reddit_client = None
    /\ rss_events = << >>
    /\ rss_added = 0
    /\ reddit_posts = << >>
    /\ reddit_added = 0

\* no raw records fetched yet
NoFeed == [source |-> None, records |-> << >>]

FetchIdle ==
    /\ source_k = 1
    /\ fetch_status = << >>
    /\ feed = NoFeed
    /\ all_events = << >>

TwiceIdle ==
    /\ batch = << >>
    /\ rows_before = {}
    /\ first_added = 0
    /\ second_added = 0

(* ------------------- analyze_content called on a text ------------------ *)
Tokens ==
    { <<"J","A","M">>, <<"W","a","t","e","r","-">>, <<"L","O","G","G","E","D">>,
      <<"S","I","L","K"," ">>, <<"b","o","a","r","d">>, <<"P","l","a","y">>,
      <<"M","G"," ">>, <<"R","o","a","d">> }

RECURSIVE TextsOf(_)
TextsOf(n) ==
    IF n = 0
    THEN { << >> }
    ELSE LET shorter == TextsOf(n - 1)
         IN  shorter \cup { t \o k : t \in shorter, k \in Tokens }

InitClassify ==
    /\ content_text \in TextsOf(MaxTokens) \cup { NoneText }
    /\ analysis_results = << >>
    /\ rows = {} /\ unique_index = FALSE
    /\ pc = [p \in Procs |-> "idle"]
    /\ FramesIdle /\ MainIdle /\ FetchIdle /\ TwiceIdle

Analyze ==
    /\ Len(analysis_results) < MaxAnalyses
    /\ \E r \in analyze_content(content_text) :
          analysis_results' = Append(analysis_results, r)
    /\ UNCHANGED << content_text, dbVars, frameVars, stdout, pc, mainVars, fetchVars, twiceVars >>

SpecClassify == InitClassify /\ [][Analyze]_vars

(* ------------------------------- C10 ----------------------------------- *)
same_letter(a, b) == a = b \/ upper_char(a) = b \/ a = upper_char(b)

\* phrase occurs in text as a case-insensitive substring
OccursIgnoringCase(phrase, text) ==
    /\ text # NoneText
    /\ \E i \in 0..Len(text) :
          /\ i + Len(phrase) <= Len(text)
          /\ \A j \in 1..Len(phrase) : same_letter(text[i + j], phrase[j])

TriggeredCategories(text) ==
    { c \in DOMAIN KEYWORD_CATEGORIES :
        \E k \in DOMAIN KEYWORD_CATEGORIES[c] :
            OccursIgnoringCase(KEYWORD_CATEGORIES[c][k], text) }

MentionedLocations(text) ==
    { title(BANGALORE_LOCATIONS[i]) :
        i \in { j \in DOMAIN BANGALORE_LOCATIONS :
                  OccursIgnoringCase(BANGALORE_LOCATIONS[j], text) } }

\* C10: every value analyze_content returns for a text has as categories
\* exactly the categories with a trigger phrase occurring in the text as a
\* case-insensitive substring, or exactly {"general"} when there is none
\* (empty and absent text included, with no location then), as locations
\* exactly the title-cased known locations occurring that way, never an
\* empty category list, and the same sets on every call with that text.
C10_AnalyzeContentExact ==
    \A n \in DOMAIN analysis_results :
        LET r == analysis_results[n]
            triggered == TriggeredCategories(content_text)
        IN  /\ Range(r.categories) = (IF triggered = {} THEN { "general" } ELSE triggered)
            /\ Range(r.locations) = MentionedLocations(content_text)
            /\ r.categories # << >>
            /\ (content_text \in { << >>, NoneText }
                    => r = [categories |-> << "general" >>, locations |-> << >>])
            /\ \A m \in DOMAIN analysis_results :
                  /\ Range(analysis_results[m].categories) = Range(r.categories)
                  /\ Range(analysis_results[m].locations) = Range(r.locations)

\* a text in mixed case that triggers two categories and mentions a location
\* has been classified twice
C10_Witness ==
    /\ Len(analysis_results) = 2
    /\ content_text = <<"P","l","a","y">> \o <<"M","G"," ">> \o <<"R","o","a","d">>
    /\ Range(analysis_results[1].categories) = { "traffic", "cultural_event" }
    /\ Range(analysis_results[1].locations) = { <<"M","g"," ","R","o","a","d">> }
    /\ analysis_results[1].categories # analysis_results[2].categories


(* ------------------------- the MongoDB collection ---------------------- *)
\* collection.create_index("link_original", unique=True)
create_index_dropped_unique == FALSE

create_index_unique == TRUE

\* the documents the filter {'link_original': link} selects
matching(link) == { d \in rows : d.fields.link_original = link }

\* the document an upsert inserts: the fields of $setOnInsert (the filter's
\* link_original among them) under a fresh _id
new_document(event, oid) == [_id |-> oid, fields |-> event]

\* {'$setOnInsert': event} applied to a matched document: nothing is set
on_match_set(row, event) == [row EXCEPT !.fields = event]

on_match(row, event) == row

\* if result.upserted_id: events_added += 1
counts_every_result(result) == TRUE

counts_as_added(result) == result = "upserted"

\* the loop index after the except clause of the for loop's try
abort_after_error(i, n) == n + 1

next_after_error(i, n) == i + 1

(* --------------------------- store_events_in_db ------------------------ *)
error_storing(event) == << "! Error storing event", event.link_original >>

\* store_events_in_db(coll, evs) is entered by process p
store_call(p, coll, evs) ==
    /\ collection' = [collection EXCEPT ![p] = coll]
    /\ events' = [events EXCEPT ![p] = evs]
    /\ idx' = [idx EXCEPT ![p] = 1]
    /\ found' = [found EXCEPT ![p] = FALSE]
    /\ events_added' = [events_added EXCEPT ![p] = 0]
    /\ results' = [results EXCEPT ![p] = << >>]
    /\ call' = [call EXCEPT ![p] = call[p] + 1]
    /\ store_pc' = [store_pc EXCEPT ![p] = IF evs = << >> THEN "returned" ELSE "loop"]
    /\ UNCHANGED failures

\* update_one(..., upsert=True), query phase: the server looks for a
\* document with the event's link_original
update_one_find(p) ==
    /\ store_pc[p] = "loop"
    /\ idx[p] <= Len(events[p])
    /\ collection[p] # None
    /\ found' = [found EXCEPT ![p] = matching(events[p][idx[p]].link_original) # {}]
    /\ store_pc' = [store_pc EXCEPT ![p] = "write"]
    /\ UNCHANGED << classifyVars, dbVars, collection, events, idx, events_added, results,
                    call, failures, stdout, pc, mainVars, fetchVars, twiceVars >>

\* update_one(..., upsert=True), write phase: a matched document gets the
\* update; with no match the document is inserted, unless the unique index
\* now holds its link (another upsert won the race): then the server either
\* reports DuplicateKeyError, which the except clause catches, or retries
\* the upsert as an update of the document that is there
update_one_write(p) ==
    /\ store_pc[p] = "write"
    /\ LET event == events[p][idx[p]]
           hit == matching(event.link_original)
           done(result) ==
               /\ results' = [results EXCEPT ![p] = Append(results[p], result)]
               /\ events_added' =
                     [events_added EXCEPT ![p] =
                         IF counts_as_added(result) THEN events_added[p] + 1 ELSE events_added[p]]
               /\ idx' = [idx EXCEPT ![p] = idx[p] + 1]
               /\ store_pc' = [store_pc EXCEPT ![p] = "loop"]
               /\ UNCHANGED << found, stdout >>
       IN  IF found[p]
           THEN LET target == CHOOSE d \in hit : TRUE
                IN  /\ rows' = (rows \ { target }) \cup { on_match(target, event) }
                    /\ done("matched")
           ELSE IF unique_index /\ hit # {}
           THEN \E outcome \in { "DuplicateKeyError", "retry" } :
                   /\ UNCHANGED rows
                   /\ IF outcome = "retry"
                      THEN /\ found' = [found EXCEPT ![p] = TRUE]
                           /\ UNCHANGED << results, events_added, idx, store_pc, stdout >>
                      ELSE /\ results' = [results EXCEPT ![p] = Append(results[p], outcome)]
                           /\ stdout' = [stdout EXCEPT ![p] = Append(stdout[p], error_storing(event))]
                           /\ idx' = [idx EXCEPT ![p] = next_after_error(idx[p], Len(events[p]))]
                           /\ store_pc' = [store_pc EXCEPT ![p] = "loop"]
                           /\ UNCHANGED << found, events_added >>
           ELSE /\ rows' = rows \cup { new_document(event, << p, call[p], idx[p] >>) }
                /\ done("upserted")
    /\ UNCHANGED << classifyVars, unique_index, collection, events, call, failures, pc,
                    mainVars, fetchVars, twiceVars >>

\* update_one raises before anything is written (the store is unavailable,
\* or the collection is None): the except clause reports the event and the
\* loop goes on
update_one_raises(p) ==
    /\ store_pc[p] = "loop"
    /\ idx[p] <= Len(events[p])
    /\ (collection[p] = None \/ failures[p] < MaxStorageFailures)
    /\ results' = [results EXCEPT ![p] = Append(results[p], "error")]
    /\ stdout' = [stdout EXCEPT ![p] = Append(stdout[p], error_storing(events[p][idx[p]]))]
    /\ idx' = [idx EXCEPT ![p] = next_after_error(idx[p], Len(events[p]))]
    /\ failures' = [failures EXCEPT ![p] = IF collection[p] = None THEN failures[p] ELSE failures[p] + 1]
    /\ UNCHANGED << classifyVars, dbVars, collection, events, found, events_added, call,
                    store_pc, pc, mainVars, fetchVars, twiceVars >>

\* the for loop is exhausted: return events_added
store_return(p) ==
    /\ store_pc[p] = "loop"
    /\ idx[p] > Len(events[p])
    /\ store_pc' = [store_pc EXCEPT ![p] = "returned"]
    /\ UNCHANGED << classifyVars, dbVars, collection, events, idx, found, events_added,
                    results, call, failures, stdout, pc, mainVars, fetchVars, twiceVars >>

store_step(p) ==
    \/ update_one_find(p)
    \/ update_one_write(p)
    \/ update_one_raises(p)
    \/ store_return(p)

(* ------------- store_events_in_db called by concurrent processes ------- *)
\* Each process calls once, at any time: a call that starts after another
\* has returned is a repeated run, one that starts before is an interleaved
\* one.
StoreLinks == { "http://a", "http://b", "http://c" }

\* the link the concurrent callers contend for (documents under different
\* links do not meet in any operation of the collection)
CallerLinks == { "http://a" }

StoreEvents(links) ==
    { e \in [link_original : links, content_raw : { "first", "other" }] :
        e.content_raw = "other" => e.link_original = "http://a" }

BatchesUpTo(n, links) == UNION { [1..m -> StoreEvents(links)] : m \in 0..n }


\* a collection set up by setup_database, and nothing stored yet
InitStore ==
    /\ rows = {}
    /\ unique_index = create_index_unique
    /\ pc = [p \in Procs |-> "idle"]
    /\ ClassifierIdle /\ FramesIdle /\ MainIdle /\ FetchIdle /\ TwiceIdle

caller_call(p) ==
    /\ pc[p] = "idle"
    /\ call[p] = 0
    /\ \E b \in BatchesUpTo(MaxBatch, CallerLinks) : store_call(p, "events", b)
    /\ pc' = [pc EXCEPT ![p] = "calling"]
    /\ UNCHANGED << classifyVars, dbVars, stdout, mainVars, fetchVars, twiceVars >>

caller_return(p) ==
    /\ pc[p] = "calling"
    /\ store_pc[p] = "returned"
    /\ pc' = [pc EXCEPT ![p] = "idle"]
    /\ store_pc' = [store_pc EXCEPT ![p] = "idle"]
    /\ UNCHANGED << classifyVars, dbVars, collection, events, idx, found, events_added,
                    results, call, failures, stdout, mainVars, fetchVars, twiceVars >>

NextStore == \E p \in Procs : caller_call(p) \/ caller_return(p) \/ store_step(p)

SpecStore == InitStore /\ [][NextStore]_vars

(* -------------------------------- C1 ----------------------------------- *)
\* C1: on a collection set up by setup_database, whatever batches repeated
\* and concurrently interleaved calls of store_events_in_db upsert, no two
\* stored documents have the same link_original, also when two calls race on
\* one link between the query and the insert of the upsert.
C1_LinkOriginalUnique ==
    \A d1, d2 \in rows : d1.fields.link_original = d2.fields.link_original => d1 = d2

\* two calls raced on a link: one inserted it, the other found no match in
\* its query phase and was then refused by the unique index
C1_Witness ==
    \E p, q \in Procs :
        /\ p # q
        /\ results[p] # << >>
        /\ results[p][Len(results[p])] = "DuplicateKeyError"
        /\ \E d \in matching(events[p][Len(results[p])].link_original) : d._id[1] = q

(* -------------------------------- C3 ----------------------------------- *)
\* C3: store_events_in_db inserts only if absent: no step of any call
\* changes or removes a stored document, so the document under a link stays
\* the first event stored under it, also when a later event has the same
\* link and other content.
C3_StoredRowsNeverChange == [][\A d \in rows : d \in rows']_vars

\* an upsert has matched a stored document whose content differs from the
\* event's
C3_Witness ==
    \E p \in Procs :
        /\ results[p] # << >>
        /\ results[p][Len(results[p])] = "matched"
        /\ \E d \in matching(events[p][Len(results[p])].link_original) :
              d.fields # events[p][Len(results[p])]

(* ---------------- store_events_in_db called twice in sequence ---------- *)
\* documents stored by earlier runs
PriorRows ==
    { new_document([link_original |-> "http://a", content_raw |-> "first"], << 0, 0, 1 >>),
      new_document([link_original |-> "http://b", content_raw |-> "first"], << 0, 0, 2 >>) }

InitTwice ==
    /\ rows \in SUBSET PriorRows
    /\ unique_index = create_index_unique
    /\ pc = [p \in Procs |-> IF p = MainProc THEN "first_call" ELSE "idle"]
    /\ ClassifierIdle /\ FramesIdle /\ MainIdle /\ FetchIdle /\ TwiceIdle

\* first_added = store_events_in_db(collection, batch), entered
twice_first_call ==
    /\ pc[MainProc] = "first_call"
    /\ \E b \in BatchesUpTo(MaxTwiceBatch, StoreLinks) :
          /\ batch' = b
          /\ store_call(MainProc, "events", b)
    /\ rows_before' = rows
    /\ pc' = [pc EXCEPT ![MainProc] = "in_first_call"]
    /\ UNCHANGED << classifyVars, dbVars, stdout, mainVars, fetchVars, first_added, second_added >>

\* the first call returns; the second is entered with the same list
twice_second_call ==
    /\ pc[MainProc] = "in_first_call"
    /\ store_pc[MainProc] = "returned"
    /\ first_added' = events_added[MainProc]
    /\ store_call(MainProc, "events", batch)
    /\ pc' = [pc EXCEPT ![MainProc] = "in_second_call"]
    /\ UNCHANGED << classifyVars, dbVars, stdout, mainVars, fetchVars, batch, rows_before, second_added >>

\* the second call returns
twice_done ==
    /\ pc[MainProc] = "in_second_call"
    /\ store_pc[MainProc] = "returned"
    /\ second_added' = events_added[MainProc]
    /\ pc' = [pc EXCEPT ![MainProc] = "twice_done"]
    /\ UNCHANGED << classifyVars, dbVars, frameVars, stdout, mainVars, fetchVars, batch, rows_before, first_added >>

NextTwice == twice_first_call \/ twice_second_call \/ twice_done \/ store_step(MainProc)

SpecTwice == InitTwice /\ [][NextTwice]_vars

(* -------------------------------- C2 ----------------------------------- *)
links_of(evs) == { evs[i].link_original : i \in DOMAIN evs }

stored_links(docs) == { d.fields.link_original : d \in docs }

\* both calls are over, no update_one raised, and no link of the batch was
\* stored before the first call
TwiceCase ==
    /\ pc[MainProc] = "twice_done"
    /\ failures[MainProc] = 0
    /\ links_of(batch) \cap stored_links(rows_before) = {}

\* C2 as stated: the first call returns the length N of the list, the second
\* returns 0, and the collection grows by N documents.
C2_AsStated ==
    TwiceCase =>
        /\ first_added = Len(batch)
        /\ second_added = 0
        /\ Cardinality(rows) = Cardinality(rows_before) + Len(batch)

\* C2 amended: the first call returns the number of distinct link_original
\* values of the list (N when the links are pairwise distinct), the second
\* returns 0, and the collection grows by exactly that number of documents.
C2_IdempotentPerLink ==
    TwiceCase =>
        /\ first_added = Cardinality(links_of(batch))
        /\ second_added = 0
        /\ Cardinality(rows) = Cardinality(rows_before) + Cardinality(links_of(batch))

\* a list of two events with distinct links, neither stored before, has
\* been stored twice into a collection that already held a document
C2_Witness ==
    /\ TwiceCase
    /\ Len(batch) = 2
    /\ Cardinality(links_of(batch)) = 2
    /\ rows_before # {}
    /\ first_added = 2
    /\ second_added = 0

(* -------------------------------- C4 ----------------------------------- *)
\* the documents the running call of process p has inserted
inserted_by_call(p) == { d \in rows : d._id[1] = p /\ d._id[2] = call[p] }

\* C4: an update_one that raises does not end the call: when the call
\* returns every event of the batch has been attempted in turn, an event
\* whose update_one raised is not stored by it, every other event is stored
\* or was stored already, and the returned count is the number of documents
\* the call inserted.
C4_FailureSkipsOneEvent ==
    \A p \in Procs :
        /\ events_added[p] = Cardinality(inserted_by_call(p))
        /\ \A i \in DOMAIN results[p] :
              /\ results[p][i] \in { "error", "DuplicateKeyError" }
                    => ~ \E d \in rows : d._id = << p, call[p], i >>
              /\ results[p][i] = "upserted"
                    => new_document(events[p][i], << p, call[p], i >>) \in rows
              /\ results[p][i] = "matched" => matching(events[p][i].link_original) # {}
        /\ store_pc[p] = "returned" => Len(results[p]) = Len(events[p])

\* three new events, the second of which failed: the first and the third
\* are stored and the call returned 2
C4_Witness ==
    /\ pc[MainProc] = "in_first_call"
    /\ store_pc[MainProc] = "returned"
    /\ rows_before = {}
    /\ results[MainProc] = << "upserted", "error", "upserted" >>
    /\ events_added[MainProc] = 2
    /\ stored_links(rows) = { batch[1].link_original, batch[3].link_original }
    /\ batch[2].link_original \notin stored_links(rows)

(* ------------------------------ raw records ---------------------------- *)
TextJam == << "H","e","a","v","y"," ","j","a","m" >>

TextHi == << "H","i" >>

TextPolice == << "P","o","l","i","c","e"," ","a","t"," ","H","e","b","b","a","l" >>

NoTitle == << "N","o"," ","T","i","t","l","e" >>

NoSummary == << "N","o"," ","S","u","m","m","a","r","y" >>

\* the four feeds of RSS_FEEDS, of which the first NumFeeds are scraped
RSS_FEED_NAMES == << "TimesOfIndia", "TheHindu", "DeccanHerald", "BangaloreMirror" >>

RSS_FEEDS == SubSeq(RSS_FEED_NAMES, 1, IF NumFeeds < 4 THEN NumFeeds ELSE 4)

SUBREDDIT_NAME == "bangalore"

\* subreddit.display_name, as in f"r/{subreddit.display_name}"
subreddit_source == "r/" \o SUBREDDIT_NAME

Sources == Range(RSS_FEEDS) \cup { subreddit_source }

\* Entries a feed may serve.  A key the entry lacks is None (NoneText for a
\* text); published_parsed "out of range" is a date mktime() rejects with
\* OverflowError.
RawEntries ==
    { [id |-> "1", link |-> "http://a", title |-> TextJam, summary |-> TextHi,
       published_parsed |-> "2023-11-03"],
      [id |-> None, link |-> "http://b", title |-> NoneText, summary |-> NoneText,
       published_parsed |-> None],
      [id |-> "3", link |-> None, title |-> TextHi, summary |-> NoneText,
       published_parsed |-> None],
      [id |-> "4", link |-> "", title |-> TextJam, summary |-> NoneText,
       published_parsed |-> "2023-11-03"],
      [id |-> "5", link |-> "http://c", title |-> TextHi, summary |-> TextHi,
       published_parsed |-> "out of range"] }

\* Submissions the listing may serve.  url is split at the places where
\* "reddit.com" can start or end; created_utc None makes fromtimestamp()
\* raise TypeError.
RawPosts ==
    { [id |-> "p1", title |-> TextPolice, selftext |-> << >>, permalink |-> "/r/bangalore/p1",
       created_utc |-> "1699000000", url |-> << "https://www.", "reddit.com", "/r/bangalore/p1" >>,
       is_self |-> TRUE, link_flair_text |-> None],
      [id |-> "p2", title |-> TextHi, selftext |-> TextHi, permalink |-> "/r/bangalore/p2",
       created_utc |-> "1699000000", url |-> << "https://i.", "imgur.com", "/x.jpg" >>,
       is_self |-> FALSE, link_flair_text |-> "AskBangalore"],
      [id |-> "p3", title |-> TextHi, selftext |-> << >>, permalink |-> "",
       created_utc |-> "1699000000", url |-> << "https://www.", "reddit.com", "/gallery/p3" >>,
       is_self |-> FALSE, link_flair_text |-> ""],
      [id |-> "p4", title |-> TextJam, selftext |-> << >>, permalink |-> "/r/bangalore/p4",
       created_utc |-> None, url |-> << "https://i.", "imgur.com", "/y.jpg" >>,
       is_self |-> FALSE, link_flair_text |-> None] }

SeqsUpTo(S, n) == UNION { [1..m -> S] : m \in 0..n }

(* ------------------------------ normalisation -------------------------- *)
\* bool(s) of a str or None
truthy_str(s) == s # None /\ s # ""

\* entry.get(key, default) of a text
get_text(value, default) == IF value = NoneText THEN default ELSE value

\* mktime(entry.published_parsed) raises
mktime_raises(entry) ==
    truthy_str(entry.published_parsed) /\ entry.published_parsed = "out of range"

\* f"rss_{entry.get('id', entry.get('link'))}"
rss_event_id(entry) == "rss_" \o (IF entry.id # None THEN entry.id ELSE entry.link)

\* f"{entry.get('title', '')}. {entry.get('summary', '')}"
rss_content_for_analysis(entry) ==
    get_text(entry.title, << >>) \o << ".", " " >> \o get_text(entry.summary, << >>)

\* the events the body of the loop over feed.entries may build for an entry
rss_event(source, entry) ==
    { [event_id |-> rss_event_id(entry),
       source_type |-> "RSS",
       source_name |-> source,
       content_raw |-> get_text(entry.title, NoTitle),
       content_summary |-> get_text(entry.summary, NoSummary),
       link_original |-> entry.link,
       timestamp_published |->
           IF truthy_str(entry.published_parsed) THEN entry.published_parsed ELSE "now",
       timestamp_scraped |-> "now",
       analysis |-> [categories |-> a.categories, mentioned_locations |-> a.locations]] :
      a \in analyze_content(rss_content_for_analysis(entry)) }

\* rss_event, tabulated over the feeds and the entries they may serve
rss_events_of ==
    [ source \in Range(RSS_FEEDS) |-> [ entry \in RawEntries |-> rss_event(source, entry) ] ]

\* if event["link_original"]: all_events.append(event)
appends_any(event) == TRUE

appends(event) == truthy_str(event.link_original)

\* the loop over feed.entries from entry k on, all_events being acc: what
\* all_events may be when the loop ends, and the exception that ended it
RECURSIVE process_entries(_, _, _, _)
process_entries(source, entries, k, acc) ==
    IF k > Len(entries)
    THEN { [events |-> acc, raised |-> None] }
    ELSE IF mktime_raises(entries[k])
    THEN { [events |-> acc, raised |-> "OverflowError"] }
    ELSE UNION { process_entries(source, entries, k + 1,
                                 IF appends(event) THEN Append(acc, event) ELSE acc) :
                 event \in rss_events_of[source][entries[k]] }

\* datetime.fromtimestamp(submission.created_utc, timezone.utc) raises
fromtimestamp_raises(submission) == submission.created_utc = None

\* f"{submission.title}. {submission.selftext}"
reddit_content_for_analysis(submission) ==
    submission.title \o << ".", " " >> \o submission.selftext

\* [submission.link_flair_text] if submission.link_flair_text else []
flair_tags(submission) ==
    IF truthy_str(submission.link_flair_text) THEN { submission.link_flair_text } ELSE {}

\* the events the body of the loop over subreddit.new() may build
reddit_event(submission) ==
    UNION {
      { [event_id |-> "reddit_" \o submission.id,
         source_type |-> "Reddit",
         source_name |-> subreddit_source,
         content_raw |-> submission.title \o << " ", ":", ":", " " >> \o submission.selftext,
         content_summary |-> submission.title,
         link_original |-> "https://www.reddit.com" \o submission.permalink,
         timestamp_published |-> submission.created_utc,
         timestamp_scraped |-> "now",
         media_urls |->
             IF ~submission.is_self /\ ~contains(<< "reddit.com" >>, submission.url)
             THEN << submission.url >> ELSE << >>,
         analysis |-> [categories |-> c, mentioned_locations |-> a.locations]] :
        c \in list(Range(a.categories) \cup flair_tags(submission)) } :
      a \in analyze_content(reddit_content_for_analysis(submission)) }

\* reddit_event, tabulated over the submissions the listing may serve
reddit_events_of == [ submission \in RawPosts |-> reddit_event(submission) ]

RECURSIVE process_submissions(_, _, _)
process_submissions(submissions, k, acc) ==
    IF k > Len(submissions)
    THEN { [events |-> acc, raised |-> None] }
    ELSE IF fromtimestamp_raises(submissions[k])
    THEN { [events |-> acc, raised |-> "TypeError"] }
    ELSE UNION { process_submissions(submissions, k + 1, Append(acc, event)) :
                 event \in reddit_events_of[submissions[k]] }

(* ------------------------------- __main__ ------------------------------ *)
say(lines) == stdout' = [stdout EXCEPT ![MainProc] = stdout[MainProc] \o lines]

at(label) == pc[MainProc] = label

goto(label) == pc' = [pc EXCEPT ![MainProc] = label]

could_not_process_feed(source, reason) == << "! Could not process feed from", source, reason >>

\* if db_collection is None or reddit_client is None
setup_failed_when_both(db, reddit) == db = None /\ reddit = None

setup_failed(db, reddit) == db = None \/ reddit = None

\* the feed fetched after one whose try block raised: the except clause is
\* inside the loop over RSS_FEEDS
abort_after_feed_error(k) == Len(RSS_FEEDS) + 1

next_after_feed_error(k) == k + 1

\* a document an earlier run stored under a link the feeds still serve
MainPriorRows ==
    { new_document(
          CHOOSE e \in rss_event("TheHindu",
                                 [id |-> "0", link |-> "http://a", title |-> TextPolice,
                                  summary |-> NoneText, published_parsed |-> None]) : TRUE,
          << 0, 0, 1 >>) }

InitMain ==
    /\ rows \in SUBSET MainPriorRows
    /\ unique_index = FALSE
    /\ pc = [p \in Procs |-> IF p = MainProc THEN "start" ELSE "idle"]
    /\ ClassifierIdle /\ FramesIdle /\ MainIdle /\ TwiceIdle
    /\ source_k = 1
    /\ fetch_status = [s \in Sources |-> "pending"]
    /\ feed = NoFeed
    /\ all_events = << >>

\* setup_database() returns the collection, with its unique index
setup_database_ok ==
    /\ at("start")
    /\ db_collection' = "events"
    /\ unique_index' = create_index_unique
    /\ say(<< << "Starting Optimized Bangalore Pulse Scraper..." >>,
              << "MongoDB connection successful." >> >>)
    /\ goto("setup_reddit")
    /\ UNCHANGED << classifyVars, rows, frameVars, reddit_client, rss_events, rss_added,
                    reddit_posts, reddit_added, fetchVars, twiceVars >>

\* setup_database() catches ConnectionFailure and returns None
setup_database_fails ==
    /\ at("start")
    /\ db_collection' = None
    /\ say(<< << "Starting Optimized Bangalore Pulse Scraper..." >>,
              << "Could not connect to MongoDB" >> >>)
    /\ goto("setup_reddit")
    /\ UNCHANGED << classifyVars, dbVars, frameVars, reddit_client, rss_events, rss_added,
                    reddit_posts, reddit_added, fetchVars, twiceVars >>

\* setup_database() lets any other error of the server through (create_index
\* refused, say): the except clause of __main__ reports it and the run ends
setup_database_raises ==
    /\ at("start")
    /\ say(<< << "Starting Optimized Bangalore Pulse Scraper..." >>,
              << "AN UNEXPECTED ERROR OCCURRED" >> >>)
    /\ goto("unexpected_error")
    /\ UNCHANGED << classifyVars, dbVars, frameVars, mainVars, fetchVars, twiceVars >>

setup_reddit_client_ok ==
    /\ at("setup_reddit")
    /\ reddit_client' = "reddit"
    /\ say(<< << "Reddit client setup successful." >> >>)
    /\ goto("check")
    /\ UNCHANGED << classifyVars, dbVars, frameVars, db_collection, rss_events, rss_added,
                    reddit_posts, reddit_added, fetchVars, twiceVars >>

\* credentials missing from the environment, or reddit.user.me() raises
setup_reddit_client_fails ==
    /\ at("setup_reddit")
    /\ reddit_client' = None
    /\ \E line \in { "Error: Reddit credentials not found in environment variables.",
                     "Error connecting to Reddit" } :
          say(<< << line >> >>)
    /\ goto("check")
    /\ UNCHANGED << classifyVars, dbVars, frameVars, db_collection, rss_events, rss_added,
                    reddit_posts, reddit_added, fetchVars, twiceVars >>

\* the if of __main__: halt, or enter fetch_rss_data()
main_check ==
    /\ at("check")
    /\ IF setup_failed(db_collection, reddit_client)
       THEN /\ say(<< << "Halting execution due to setup failure." >> >>)
            /\ goto("halted")
       ELSE /\ say(<< << "--- Fetching & Analyzing RSS News Feeds ---" >> >>)
            /\ goto("fetch_rss")
    /\ UNCHANGED << classifyVars, dbVars, frameVars, mainVars, fetchVars, twiceVars >>

(* ----------------------------- fetch_rss_data -------------------------- *)
\* feedparser.parse(url) raises: the feed cannot be fetched
feed_parse_raises ==
    /\ at("fetch_rss")
    /\ source_k <= Len(RSS_FEEDS)
    /\ fetch_status' = [fetch_status EXCEPT ![RSS_FEEDS[source_k]] = "unreachable"]
    /\ say(<< could_not_process_feed(RSS_FEEDS[source_k], "URLError") >>)
    /\ source_k' = next_after_feed_error(source_k)
    /\ UNCHANGED << classifyVars, dbVars, frameVars, pc, mainVars, feed, all_events, twiceVars >>

\* feedparser.parse(url) returns a feed, and its entries are looped over
feed_parsed ==
    /\ at("fetch_rss")
    /\ source_k <= Len(RSS_FEEDS)
    /\ \E entries \in SeqsUpTo(RawEntries, MaxEntries) :
       \E out \in process_entries(RSS_FEEDS[source_k], entries, 1, all_events) :
          /\ feed' = [source |-> RSS_FEEDS[source_k], records |-> entries]
          /\ all_events' = out.events
          /\ IF out.raised = None
             THEN /\ source_k' = source_k + 1
                  /\ UNCHANGED stdout
             ELSE /\ source_k' = next_after_feed_error(source_k)
                  /\ say(<< could_not_process_feed(RSS_FEEDS[source_k], out.raised) >>)
    /\ fetch_status' = [fetch_status EXCEPT ![RSS_FEEDS[source_k]] = "parsed"]
    /\ UNCHANGED << classifyVars, dbVars, frameVars, pc, mainVars, twiceVars >>

\* rss_events = fetch_rss_data() returns;
\* store_events_in_db(db_collection, rss_events) is entered
rss_store_call ==
    /\ at("fetch_rss")
    /\ source_k > Len(RSS_FEEDS)
    /\ rss_events' = all_events
    /\ store_call(MainProc, db_collection, all_events)
    /\ source_k' = 1
    /\ feed' = NoFeed
    /\ all_events' = << >>
    /\ goto("store_rss")
    /\ UNCHANGED << classifyVars, dbVars, stdout, db_collection, reddit_client, rss_added,
                    reddit_posts, reddit_added, fetch_status, twiceVars >>

\* rss_added = store_events_in_db(...) returns, and the summary is printed
rss_store_return ==
    /\ at("store_rss")
    /\ store_pc[MainProc] = "returned"
    /\ rss_added' = events_added[MainProc]
    /\ say(<< << "-> RSS: Fetched", Len(rss_events), events_added[MainProc] >> >>)
    /\ store_pc' = [store_pc EXCEPT ![MainProc] = "idle"]
    /\ goto("fetch_reddit")
    /\ UNCHANGED << classifyVars, dbVars, collection, events, idx, found, events_added, results,
                    call, failures, db_collection, reddit_client, rss_events, reddit_posts,
                    reddit_added, fetchVars, twiceVars >>

(* ---------------------------- fetch_reddit_data ------------------------ *)
error_fetching_from_reddit(reason) == << "! Error fetching from Reddit", reason >>

\* subreddit.new(limit=50) raises when the listing is first read: the forum
\* cannot be fetched; [] is returned and handed to store_events_in_db
reddit_listing_raises ==
    /\ at("fetch_reddit")
    /\ reddit_client # None
    /\ fetch_status' = [fetch_status EXCEPT ![subreddit_source] = "unreachable"]
    /\ say(<< << "--- Fetching & Analyzing Reddit Posts from", subreddit_source >>,
              error_fetching_from_reddit("RequestException") >>)
    /\ reddit_posts' = << >>
    /\ store_call(MainProc, db_collection, << >>)
    /\ goto("store_reddit")
    /\ UNCHANGED << classifyVars, dbVars, db_collection, reddit_client, rss_events, rss_added,
                    reddit_added, source_k, feed, all_events, twiceVars >>

\* fetch_reddit_data(reddit_client) returns [] for no client, and otherwise
\* loops over the submissions the listing serves;
\* store_events_in_db(db_collection, reddit_posts) is entered
reddit_listing_served ==
    /\ at("fetch_reddit")
    /\ IF reddit_client = None
       THEN /\ reddit_posts' = << >>
            /\ store_call(MainProc, db_collection, << >>)
            /\ UNCHANGED << stdout, fetch_status, feed >>
       ELSE \E submissions \in SeqsUpTo(RawPosts, MaxPosts) :
            \E out \in process_submissions(submissions, 1, << >>) :
               /\ feed' = [source |-> subreddit_source, records |-> submissions]
               /\ fetch_status' = [fetch_status EXCEPT ![subreddit_source] = "parsed"]
               /\ reddit_posts' = out.events
               /\ store_call(MainProc, db_collection, out.events)
               /\ say(<< << "--- Fetching & Analyzing Reddit Posts from", subreddit_source >> >>
                      \o (IF out.raised = None THEN << >>
                          ELSE << error_fetching_from_reddit(out.raised) >>))
    /\ goto("store_reddit")
    /\ UNCHANGED << classifyVars, dbVars, db_collection, reddit_client, rss_events, rss_added,
                    reddit_added, source_k, all_events, twiceVars >>

\* reddit_added = store_events_in_db(...) returns; the summary and the last
\* line are printed
reddit_store_return ==
    /\ at("store_reddit")
    /\ store_pc[MainProc] = "returned"
    /\ reddit_added' = events_added[MainProc]
    /\ say(<< << "-> Reddit: Fetched", Len(reddit_posts), events_added[MainProc] >>,
              << "Scraping cycle complete." >> >>)
    /\ store_pc' = [store_pc EXCEPT ![MainProc] = "idle"]
    /\ goto("complete")
    /\ UNCHANGED << classifyVars, dbVars, collection, events, idx, found, events_added, results,
                    call, failures, db_collection, reddit_client, rss_events, rss_added,
                    reddit_posts, fetchVars, twiceVars >>

NextMain ==
    \/ setup_database_ok
    \/ setup_database_fails
    \/ setup_database_raises
    \/ setup_reddit_client_ok
    \/ setup_reddit_client_fails
    \/ main_check
    \/ feed_parse_raises
    \/ feed_parsed
    \/ rss_store_call
    \/ rss_store_return
    \/ reddit_listing_raises
    \/ reddit_listing_served
    \/ reddit_store_return
    \/ store_step(MainProc)

Spec == InitMain /\ [][NextMain]_vars

\* the interpreter runs the script on until it ends
FairSpec == Spec /\ WF_vars(NextMain)

(* ------------------------- what the run has shown ---------------------- *)
printed(head) == \E i \in DOMAIN stdout[MainProc] : stdout[MainProc][i][1] = head

\* the lists of events the run holds
held_events ==
    Range(all_events) \cup Range(rss_events) \cup Range(reddit_posts) \cup Range(events[MainProc])

\* event was built from this entry of this feed
from_entry(event, source, entry) ==
    /\ event.source_name = source
    /\ event.event_id = rss_event_id(entry)
    /\ event.link_original = entry.link

\* event was built from this submission
from_submission(event, submission) ==
    /\ event.source_name = subreddit_source
    /\ event.event_id = "reddit_" \o submission.id

rss_feed_in_hand == feed.source \in Range(RSS_FEEDS)

listing_in_hand == feed.source = subreddit_source

(* -------------------------------- C5 ----------------------------------- *)
\* C5: a record that cannot be normalised does not end its batch: of the
\* feed just processed, every entry that can be normalised and has a link
\* has its event in all_events, and of the listing just processed every
\* submission that can be normalised has its event in reddit_posts, also
\* when a record before it raised.
C5_RecordFailureSkipsOneRecord ==
    /\ rss_feed_in_hand =>
          \A k \in DOMAIN feed.records :
              (~mktime_raises(feed.records[k]) /\ truthy_str(feed.records[k].link))
                  => \E i \in DOMAIN all_events :
                         from_entry(all_events[i], feed.source, feed.records[k])
    /\ listing_in_hand =>
          \A k \in DOMAIN feed.records :
              ~fromtimestamp_raises(feed.records[k])
                  => \E i \in DOMAIN reddit_posts :
                         from_submission(reddit_posts[i], feed.records[k])

(* -------------------------------- C6 ----------------------------------- *)
\* C6: a source that cannot be fetched contributes no event; every feed is
\* still fetched, and so is the forum; the events of a fetched feed (those
\* of its entries up to the first that cannot be normalised) are in the
\* result, also after a later feed failed; and the run goes on to the store
\* steps and to its end.
C6_FetchFailureContained ==
    /\ \A s \in Sources :
          fetch_status[s] = "unreachable" => ~ \E e \in held_events : e.source_name = s
    /\ pc[MainProc] \in { "store_rss", "fetch_reddit", "store_reddit", "complete" }
          => \A s \in Range(RSS_FEEDS) : fetch_status[s] # "pending"
    /\ pc[MainProc] \in { "store_reddit", "complete" }
          => fetch_status[subreddit_source] # "pending"
    /\ rss_feed_in_hand =>
          \A k \in DOMAIN feed.records :
              ((\A j \in 1..k : ~mktime_raises(feed.records[j])) /\ truthy_str(feed.records[k].link))
                  => \E i \in DOMAIN all_events :
                         from_entry(all_events[i], feed.source, feed.records[k])
    /\ fetch_status[subreddit_source] = "unreachable"
          => reddit_posts = << >> /\ call[MainProc] = 2
    /\ (\E s \in Sources : fetch_status[s] = "unreachable")
          => /\ pc[MainProc] \in { "fetch_rss", "store_rss", "fetch_reddit", "store_reddit", "complete" }
             /\ pc[MainProc] # "complete" => ENABLED NextMain

\* the first feed and the forum could not be fetched, the second feed
\* could, and the run is complete with the second feed's event stored
C6_Witness ==
    /\ pc[MainProc] = "complete"
    /\ fetch_status[RSS_FEEDS[1]] = "unreachable"
    /\ fetch_status[RSS_FEEDS[2]] = "parsed"
    /\ fetch_status[subreddit_source] = "unreachable"
    /\ \E i \in DOMAIN rss_events : rss_events[i].source_name = RSS_FEEDS[2]
    /\ \E d \in rows : d._id[1] = MainProc /\ d.fields.source_name = RSS_FEEDS[2]

(* -------------------------------- C7 ----------------------------------- *)
database_setup_failed ==
    printed("Could not connect to MongoDB") \/ printed("AN UNEXPECTED ERROR OCCURRED")

reddit_setup_failed ==
    \/ printed("Error: Reddit credentials not found in environment variables.")
    \/ printed("Error connecting to Reddit")

both_setups_succeeded ==
    printed("MongoDB connection successful.") /\ printed("Reddit client setup successful.")

\* the lines that mark the steps of the run, in the order they were printed
is_step_line(line) ==
    line[1] \in { "--- Fetching & Analyzing RSS News Feeds ---", "-> RSS: Fetched",
                  "--- Fetching & Analyzing Reddit Posts from", "-> Reddit: Fetched",
                  "Scraping cycle complete." }

step_lines ==
    LET picked == SelectSeq(stdout[MainProc], is_step_line)
    IN  [ i \in DOMAIN picked |-> picked[i][1] ]

all_step_lines ==
    << "--- Fetching & Analyzing RSS News Feeds ---", "-> RSS: Fetched",
       "--- Fetching & Analyzing Reddit Posts from", "-> Reddit: Fetched",
       "Scraping cycle complete." >>

\* after a failed setup nothing is fetched or stored; a run ends early only
\* after a failed setup; after two successful setups the steps come in order
no_partial_execution_and_steps_in_order ==
    /\ (database_setup_failed \/ reddit_setup_failed)
          => /\ pc[MainProc] \in { "setup_reddit", "check", "halted", "unexpected_error" }
             /\ call[MainProc] = 0
             /\ \A s \in Sources : fetch_status[s] = "pending"
             /\ step_lines = << >>
             /\ rows \subseteq MainPriorRows
    /\ pc[MainProc] \in { "halted", "unexpected_error" }
          => (database_setup_failed \/ reddit_setup_failed)
    /\ both_setups_succeeded
          => /\ pc[MainProc] \in { "check", "fetch_rss", "store_rss", "fetch_reddit",
                                   "store_reddit", "complete" }
             /\ step_lines =
                   SubSeq(all_step_lines, 1,
                          CASE pc[MainProc] = "check" -> 0
                            [] pc[MainProc] \in { "fetch_rss", "store_rss" } -> 1
                            [] pc[MainProc] = "fetch_reddit" -> 2
                            [] pc[MainProc] = "store_reddit" -> 3
                            [] OTHER -> 5)
             /\ call[MainProc] =
                   (CASE pc[MainProc] \in { "check", "fetch_rss" } -> 0
                      [] pc[MainProc] \in { "store_rss", "fetch_reddit" } -> 1
                      [] OTHER -> 2)
             /\ pc[MainProc] \in { "store_rss", "fetch_reddit", "store_reddit", "complete" }
                   => \A s \in Range(RSS_FEEDS) : fetch_status[s] # "pending"

\* C7: after a failed setup nothing is fetched and nothing is stored, the
\* stored rows are unchanged and the run ends there; a run ends early only
\* after a failed setup; and after two successful setups the run does RSS
\* fetch, RSS store, forum fetch, forum store in that order and always gets
\* to "Scraping cycle complete", whatever failed on the way.
C7_OnlySetupFailureHalts ==
    /\ []no_partial_execution_and_steps_in_order
    /\ both_setups_succeeded ~> (pc[MainProc] = "complete" /\ step_lines = all_step_lines)

\* a run whose setups succeeded is complete although a feed could not be
\* fetched, an entry could not be normalised and an event could not be stored
C7_Witness ==
    /\ pc[MainProc] = "complete"
    /\ \E s \in Range(RSS_FEEDS) : fetch_status[s] = "unreachable"
    /\ \E i \in DOMAIN stdout[MainProc] :
          /\ stdout[MainProc][i][1] = "! Could not process feed from"
          /\ stdout[MainProc][i][3] = "OverflowError"
    /\ printed("! Error storing event")
    /\ printed("! Error fetching from Reddit")

(* -------------------------------- C8 ----------------------------------- *)
\* C8: no event the fetch functions hold or return, no event handed to
\* store_events_in_db and no stored document has an empty or missing
\* link_original.
C8_NoEmptyLinkReachesStore ==
    /\ \A e \in held_events : truthy_str(e.link_original)
    /\ \A d \in rows : truthy_str(d.fields.link_original)

\* a feed served an entry without a link and one with an empty link, and
\* neither is among the events, which are those of the feed before
C8_Witness ==
    /\ rss_feed_in_hand
    /\ \E k, j \in DOMAIN feed.records :
          feed.records[k].link = None /\ feed.records[j].link = ""
    /\ all_events # << >>
    /\ ~ \E i \in DOMAIN all_events : all_events[i].source_name = feed.source

(* -------------------------------- C9 ----------------------------------- *)
\* the categories whose keywords occur in the text of each record served
triggered_in ==
    [ text \in { rss_content_for_analysis(entry) : entry \in RawEntries }
                  \cup { reddit_content_for_analysis(submission) : submission \in RawPosts }
        |-> TriggeredCategories(text) ]

classified(text) ==
    IF triggered_in[text] = {} THEN { "general" } ELSE triggered_in[text]

\* C9: every event held, handed to the store or stored has a category; an
\* event of a feed whose text triggers no category has exactly "general";
\* an event of the forum has the classified categories of its text merged
\* with the submission's flair, hence exactly "general" when nothing is
\* triggered and there is no flair.
C9_CategoriesNeverEmpty ==
    /\ \A e \in held_events : e.analysis.categories # << >>
    /\ \A d \in rows : d.fields.analysis.categories # << >>
    /\ rss_feed_in_hand =>
          \A k \in DOMAIN feed.records : \A i \in DOMAIN all_events :
              (/\ from_entry(all_events[i], feed.source, feed.records[k])
               /\ triggered_in[rss_content_for_analysis(feed.records[k])] = {})
                  => all_events[i].analysis.categories = << "general" >>
    /\ listing_in_hand =>
          \A k \in DOMAIN feed.records : \A i \in DOMAIN reddit_posts :
              from_submission(reddit_posts[i], feed.records[k])
                  => LET text == reddit_content_for_analysis(feed.records[k])
                         cats == reddit_posts[i].analysis.categories
                     IN  /\ Range(cats) = classified(text) \cup flair_tags(feed.records[k])
                         /\ Len(cats) = Cardinality(Range(cats))
                         /\ (triggered_in[text] = {} /\ flair_tags(feed.records[k]) = {})
                               => cats = << "general" >>

\* the run stored a feed event with no triggered category, and holds a forum
\* event with a flair and no triggered category and one with neither
C9_Witness ==
    /\ listing_in_hand
    /\ \E i \in DOMAIN rss_events : rss_events[i].analysis.categories = << "general" >>
    /\ \E i \in DOMAIN reddit_posts :
          Range(reddit_posts[i].analysis.categories) = { "general", "AskBangalore" }
    /\ \E i \in DOMAIN reddit_posts :
          /\ reddit_posts[i].analysis.categories = << "general" >>
          /\ reddit_posts[i].event_id = "reddit_p3"

=============================================================================
